---- MODULE Spec2Model ----
(***************************************************************************)
(* License-validation service (src/app.py): the `licenses` table, the      *)
(* admin gate and the four request handlers.  Each handler is one action;  *)
(* the variables hold the database and what the last request read and      *)
(* answered.                                                               *)
(***************************************************************************)
EXTENDS Integers, Sequences, FiniteSets, TLC

VARIABLES
    licenses,   \* rows of table `licenses` (a set of row records)
    seq,        \* sqlite_sequence value of the AUTOINCREMENT id column
    handler,    \* the view function that served the last request
    api_key,    \* header X-API-KEY of the request
    data,       \* request.get_json() as read by the handler
    today,      \* datetime.date.today() at the time of the request
    dbOpened,   \* whether the handler called get_db() (g._database is set)
    response,   \* the (JSON body, status) pair the handler returned
    workers,    \* requests served concurrently: each one's position,
                \* connection and answer
    lock        \* the connection holding the database's write lock, or None

vars == <<licenses, seq, handler, api_key, data, today, dbOpened, response,
          workers, lock>>

----------------------------------------------------------------------------
(* Values *)

\* Python None / JSON null / SQL NULL / an absent header.
None == "<None>"

\* ADMIN_API_KEY = os.environ.get("ADMIN_API_KEY", "clave_secreta_por_defecto")
ADMIN_API_KEY == "clave_secreta_por_defecto"

\* Values the X-API-KEY header takes: the secret, a near miss, no header.
Credentials == {ADMIN_API_KEY, "clave_secreta_por_defectO", None}

\* The two rows init_db() inserts into an empty table.
SeedRows ==
    { [id |-> 1, usuario |-> "usuario1", license_key |-> "LICENSE-1234-5678",
       subscription_date |-> "2023-03-03", expiration_date |-> "2023-12-31",
       active |-> 1],
      [id |-> 2, usuario |-> "usuario2", license_key |-> "LICENSE-9876-5432",
       subscription_date |-> "2023-01-01", expiration_date |-> "2023-02-01",
       active |-> 1] }

\* Request values for each JSON field.
Usuarios == {"usuario1", "usuario_nuevo", None}
LicenseKeys == {"LICENSE-1234-5678", "LICENSE-0000-1111", None}
SubscriptionDates == {"2024-01-15", None}
ExpirationDates ==
    {"2023-12-31", "2024-1-1", "2023-02-30", "31/12/2023", "", None}
ActiveValues == {0, 1}

\* The characters of each text that reaches strptime.
Chars(s) ==
    CASE s = "2023-12-31" -> <<"2","0","2","3","-","1","2","-","3","1">>
      [] s = "2023-02-01" -> <<"2","0","2","3","-","0","2","-","0","1">>
      [] s = "2024-1-1"   -> <<"2","0","2","4","-","1","-","1">>
      [] s = "2023-02-30" -> <<"2","0","2","3","-","0","2","-","3","0">>
      [] s = "31/12/2023" -> <<"3","1","/","1","2","/","2","0","2","3">>
      [] s = ""           -> <<>>

Date(y, m, d) == [year |-> y, month |-> m, day |-> d]

\* How many of the days below datetime.date.today() ranges over.
MaxTodays == 4

\* Days around the expiration dates in use.
Calendar ==
    << Date(2023, 12, 31), Date(2024, 1, 1), Date(2023, 12, 30),
       Date(2023, 2, 1), Date(2024, 1, 2), Date(2023, 2, 2) >>

\* Dates datetime.date.today() returns in the runs explored.
Todays == { Calendar[i] : i \in 1..MaxTodays }
NoDate == Date(0, 0, 0)

----------------------------------------------------------------------------
(* datetime.datetime.strptime(expiration, "%Y-%m-%d").date() *)

DigitValue ==
    [c \in {"0","1","2","3","4","5","6","7","8","9"} |->
        CASE c = "0" -> 0 [] c = "1" -> 1 [] c = "2" -> 2 [] c = "3" -> 3
          [] c = "4" -> 4 [] c = "5" -> 5 [] c = "6" -> 6 [] c = "7" -> 7
          [] c = "8" -> 8 [] c = "9" -> 9]

IsDigit(c) == c \in DOMAIN DigitValue

RECURSIVE Number(_)
Number(cs) ==
    IF cs = <<>> THEN 0
    ELSE 10 * Number(SubSeq(cs, 1, Len(cs) - 1)) + DigitValue[cs[Len(cs)]]

\* %Y matches \d\d\d\d
MatchesY(cs) == Len(cs) = 4 /\ \A i \in 1..4 : IsDigit(cs[i])

\* %m matches 1[0-2]|0[1-9]|[1-9]
MatchesM(cs) ==
    \/ Len(cs) = 2 /\ cs[1] = "1" /\ cs[2] \in {"0","1","2"}
    \/ Len(cs) = 2 /\ cs[1] = "0" /\ IsDigit(cs[2]) /\ cs[2] # "0"
    \/ Len(cs) = 1 /\ IsDigit(cs[1]) /\ cs[1] # "0"

\* %d matches 3[0-1]|[1-2]\d|0[1-9]|[1-9]| [1-9]
MatchesD(cs) ==
    \/ Len(cs) = 2 /\ cs[1] = "3" /\ cs[2] \in {"0","1"}
    \/ Len(cs) = 2 /\ cs[1] \in {"1","2"} /\ IsDigit(cs[2])
    \/ Len(cs) = 2 /\ cs[1] \in {"0"," "} /\ IsDigit(cs[2]) /\ cs[2] # "0"
    \/ Len(cs) = 1 /\ IsDigit(cs[1]) /\ cs[1] # "0"

\* The ways cs splits as <year>-<month>-<day> with nothing left over.
Splits(cs) ==
    { p \in (1..Len(cs)) \X (1..Len(cs)) :
        /\ p[1] < p[2] /\ p[2] < Len(cs)
        /\ cs[p[1]] = "-" /\ cs[p[2]] = "-"
        /\ MatchesY(SubSeq(cs, 1, p[1] - 1))
        /\ MatchesM(SubSeq(cs, p[1] + 1, p[2] - 1))
        /\ MatchesD(SubSeq(cs, p[2] + 1, Len(cs))) }

IsLeap(y) == (y % 4 = 0 /\ y % 100 # 0) \/ y % 400 = 0

DaysInMonth(y, m) ==
    IF m = 2 THEN (IF IsLeap(y) THEN 29 ELSE 28)
    ELSE IF m \in {4, 6, 9, 11} THEN 30 ELSE 31

\* datetime.date(y, m, d) raises ValueError outside these ranges.
IsCalendarDate(dt) ==
    /\ dt.year >= 1
    /\ dt.month \in 1..12
    /\ dt.day \in 1..DaysInMonth(dt.year, dt.month)

DayText(cs) == IF cs[1] = " " THEN Tail(cs) ELSE cs

\* The date strptime returns for text s, or NoDate where it raises ValueError.
Strptime(s) ==
    LET cs == Chars(s) IN
    IF Splits(cs) = {} THEN NoDate
    ELSE LET p == CHOOSE q \in Splits(cs) : TRUE
             dt == Date(Number(SubSeq(cs, 1, p[1] - 1)),
                        Number(SubSeq(cs, p[1] + 1, p[2] - 1)),
                        Number(DayText(SubSeq(cs, p[2] + 1, Len(cs)))))
         IN IF IsCalendarDate(dt) THEN dt ELSE NoDate

\* strptime on every text a row's expiration_date holds in the runs.
ExpDate ==
    [s \in (ExpirationDates \cup { r.expiration_date : r \in SeedRows })
              \ {None} |-> Strptime(s)]

\* A mutation of DateGt: >= in place of >.
DateGe(a, b) ==
    \/ a.year > b.year
    \/ a.year = b.year /\ a.month > b.month
    \/ a.year = b.year /\ a.month = b.month /\ a.day >= b.day

\* date.__gt__: comparison of (year, month, day).
DateGt(a, b) ==
    \/ a.year > b.year
    \/ a.year = b.year /\ a.month > b.month
    \/ a.year = b.year /\ a.month = b.month /\ a.day > b.day

----------------------------------------------------------------------------
(* Request bodies *)

Fields == {"usuario", "license_key", "subscription_date", "expiration_date",
           "active", "license"}

\* A JSON object: `fields` are the keys it has; a key it lacks reads None.
Body(fs, u, k, s, e, a, l) ==
    [fields |-> fs, usuario |-> u, license_key |-> k, subscription_date |-> s,
     expiration_date |-> e, active |-> a, license |-> l]

\* No JSON body (get_json() is None or {}), also: get_json() not called.
NoData == Body({}, None, None, None, None, 0, None)

\* required = ["usuario", "license_key", "subscription_date", ...]
Required == {"usuario", "license_key", "subscription_date", "expiration_date",
             "active"}

\* Bodies with every required key: those whose NOT NULL columns all get a
\* text, with every expiration_date and active; and those with a null in a
\* NOT NULL column, with one expiration_date and active.
UpsertBodies ==
    { Body(Required, u, k, s, e, a, None) :
        u \in Usuarios \ {None}, k \in LicenseKeys \ {None},
        s \in SubscriptionDates \ {None},
        e \in ExpirationDates, a \in ActiveValues }
    \cup { b \in { Body(Required, u, k, s, "2023-12-31", 1, None) :
                      u \in Usuarios, k \in LicenseKeys,
                      s \in SubscriptionDates } :
             None \in {b.usuario, b.license_key, b.subscription_date} }
    \cup { NoData,
           Body(Required \ {"expiration_date"}, "usuario_nuevo",
                "LICENSE-0000-1111", "2024-01-15", None, 1, None) }

DeactivateBodies ==
    { Body({"license_key"}, None, k, None, None, 0, None) : k \in LicenseKeys }
    \cup { NoData }

ValidateBodies ==
    { Body({"license"}, None, None, None, None, 0, l) :
        l \in LicenseKeys \cup {"LICENSE-9876-5432"} }
    \cup { NoData }

----------------------------------------------------------------------------
(* Table `licenses` *)

\* license_key = ? : a comparison with NULL is never true.
KeyMatches(row, key) == key # None /\ row.license_key = key

\* NOT NULL on usuario, license_key, subscription_date.
NotNullViolated(u, k, s) == u = None \/ k = None \/ s = None

\* A mutation of InsertRaises: license_key is not UNIQUE.
InsertRaisesNotNullOnly(rows, d) ==
    NotNullViolated(d.usuario, d.license_key, d.subscription_date)

\* The INSERT raises sqlite3.IntegrityError: NOT NULL or UNIQUE(license_key).
InsertRaises(rows, d) ==
    \/ NotNullViolated(d.usuario, d.license_key, d.subscription_date)
    \/ \E r \in rows : r.license_key = d.license_key

\* INSERT INTO licenses (usuario, license_key, ...) VALUES (?, ?, ?, ?, ?)
\* id is AUTOINCREMENT: one more than the largest id ever assigned.
InsertRow(rows, lastId, d) ==
    rows \cup { [id |-> lastId + 1, usuario |-> d.usuario,
                 license_key |-> d.license_key,
                 subscription_date |-> d.subscription_date,
                 expiration_date |-> d.expiration_date,
                 active |-> d.active] }

\* The UPDATE raises sqlite3.IntegrityError: a matched row would get a NULL
\* in a NOT NULL column.
UpdateRaises(rows, d) ==
    /\ \E r \in rows : KeyMatches(r, d.license_key)
    /\ NotNullViolated(d.usuario, "", d.subscription_date)

\* A mutation of UpdateRows: the row is replaced (deleted and inserted
\* again under a fresh id) instead of updated in place.
UpdateRowsReplace(rows, d) ==
    LET kept == { r \in rows : ~KeyMatches(r, d.license_key) }
        top  == CHOOSE i \in { r.id : r \in rows } :
                    \A r \in rows : r.id <= i
    IN IF kept = rows THEN rows ELSE InsertRow(kept, top, d)

\* A mutation of UpdateRows: the WHERE clause is missing.
UpdateRowsAll(rows, d) ==
    { [r EXCEPT !.usuario = d.usuario,
                !.subscription_date = d.subscription_date,
                !.expiration_date = d.expiration_date,
                !.active = d.active] : r \in rows }

\* A mutation of UpdateRows: an update always leaves the license active.
UpdateRowsActivate(rows, d) ==
    { IF KeyMatches(r, d.license_key)
        THEN [r EXCEPT !.usuario = d.usuario,
                       !.subscription_date = d.subscription_date,
                       !.expiration_date = d.expiration_date,
                       !.active = 1]
        ELSE r : r \in rows }

\* A mutation of UpdateRows: subscription_date is missing from the SET list.
UpdateRowsKeepDate(rows, d) ==
    { IF KeyMatches(r, d.license_key)
        THEN [r EXCEPT !.usuario = d.usuario,
                       !.expiration_date = d.expiration_date,
                       !.active = d.active]
        ELSE r : r \in rows }

\* UPDATE licenses SET usuario = ?, subscription_date = ?,
\*   expiration_date = ?, active = ? WHERE license_key = ?
UpdateRows(rows, d) ==
    { IF KeyMatches(r, d.license_key)
        THEN [r EXCEPT !.usuario = d.usuario,
                       !.subscription_date = d.subscription_date,
                       !.expiration_date = d.expiration_date,
                       !.active = d.active]
        ELSE r : r \in rows }

\* A mutation of DeactivateRows: the flag is flipped instead of cleared.
DeactivateRowsToggle(rows, key) ==
    { IF KeyMatches(r, key) THEN [r EXCEPT !.active = 1 - r.active] ELSE r :
        r \in rows }

\* A mutation of DeactivateRows: the row is deleted.
DeactivateRowsDelete(rows, key) == { r \in rows : ~KeyMatches(r, key) }

\* A mutation of DeactivateRows: the WHERE clause is missing.
DeactivateRowsAll(rows, key) == { [r EXCEPT !.active = 0] : r \in rows }

\* UPDATE licenses SET active = 0 WHERE license_key = ?
DeactivateRows(rows, key) ==
    { IF KeyMatches(r, key) THEN [r EXCEPT !.active = 0] ELSE r : r \in rows }

\* A mutation of SelectActive: the filter on active is missing.
SelectAnyState(rows, key) == { r \in rows : KeyMatches(r, key) }

\* SELECT * FROM licenses WHERE license_key = ? AND active = 1
SelectActive(rows, key) == { r \in rows : KeyMatches(r, key) /\ r.active = 1 }

\* SELECT * FROM licenses, as fetchall() returns it: in rowid order.
RECURSIVE SelectAll(_)
SelectAll(rows) ==
    IF rows = {} THEN <<>>
    ELSE LET r == CHOOSE x \in rows : \A y \in rows : x.id <= y.id
         IN <<r>> \o SelectAll(rows \ {r})

----------------------------------------------------------------------------
(* Responses *)

\* jsonify({...}), status: `ok` is the body's "valid" or "success" flag; the
\* keys a body lacks read None, and `licenses` is empty unless listed.
Reply(st, flag, msg) ==
    [status |-> st, ok |-> flag, message |-> msg, usuario |-> None,
     subscription_date |-> None, expiration_date |-> None, licenses |-> <<>>]

\* An exception no handler catches: Flask answers 500 without a JSON body.
Unhandled == Reply(500, FALSE, "Internal Server Error")

\* A mutation of CheckApiKey: any header that is sent passes.
CheckApiKeyPresent(key) == key # None

\* check_api_key(): api_key == ADMIN_API_KEY
CheckApiKey(key) == key = ADMIN_API_KEY

\* `if expiration:` -- None and the empty string are falsy.
Truthy(text) == text # None /\ text # ""

\* A mutation of ValidReply: the dates are echoed under each other's key.
ValidReplySwapped(row) ==
    [Reply(200, TRUE, "Licencia valida") EXCEPT
        !.usuario = row.usuario,
        !.subscription_date = row.expiration_date,
        !.expiration_date = row.subscription_date]

\* The final return of validate_license(): "valid": True with the row echoed.
ValidReply(row) ==
    [Reply(200, TRUE, "Licencia valida") EXCEPT
        !.usuario = row.usuario,
        !.subscription_date = row.subscription_date,
        !.expiration_date = row.expiration_date]

\* validate_license() from `row = cur.fetchone()` on.  (The messages are
\* written without their accents.)
ValidateReply(found, now) ==
    IF found = {}
    THEN Reply(200, FALSE, "Licencia invalida o desactivada")
    ELSE LET row == CHOOSE r \in found : TRUE
             expiration == row.expiration_date
             valid == ValidReply(row)
         IN IF Truthy(expiration)
            THEN IF ExpDate[expiration] = NoDate
                 THEN Reply(500, FALSE, "Error en el formato de fecha")
                 ELSE IF DateGt(now, ExpDate[expiration])
                      THEN Reply(200, FALSE, "Licencia expirada")
                      ELSE valid
            ELSE valid

----------------------------------------------------------------------------
(* Handlers *)

\* A connection's transaction: whether one is open, and the table and id
\* sequence as the connection sees them.
Txn(isOpen, rows, lastId) == [open |-> isOpen, rows |-> rows, seq |-> lastId]
NoTxn == Txn(FALSE, {}, 0)

\* A request in service: the view function, its JSON body, the statement it
\* is at, the branch it took, its connection's transaction and its answer.
Worker(op, body, pc, branch, txn, reply) ==
    [op |-> op, body |-> body, pc |-> pc, branch |-> branch, txn |-> txn,
     reply |-> reply]

NoWorker == Worker("none", NoData, "done", "none", NoTxn, Reply(0, FALSE, ""))

Procs == {"w1", "w2"}

\* The database after init_db(), before any request.
InitStore ==
    /\ licenses = SeedRows
    /\ seq = Cardinality(SeedRows)
    /\ handler = "none"
    /\ api_key = None
    /\ data = NoData
    /\ today = NoDate
    /\ dbOpened = FALSE
    /\ response = Reply(0, FALSE, "")
    /\ lock = None

Init ==
    /\ InitStore
    /\ workers = [p \in Procs |-> NoWorker]

\* A mutation of ValidateLicense: the endpoint is gated like the admin ones.
ValidateLicenseGated ==
    \E key \in Credentials, body \in ValidateBodies, now \in Todays :
        /\ handler' = "validate_license"
        /\ api_key' = key
        /\ data' = body
        /\ today' = now
        /\ UNCHANGED <<licenses, seq>>
        /\ IF ~(key = ADMIN_API_KEY)
           THEN /\ dbOpened' = FALSE
                /\ response' = Reply(401, FALSE, "No autorizado")
           ELSE IF "license" \notin body.fields
           THEN /\ dbOpened' = FALSE
                /\ response' = Reply(400, FALSE, "No se proporciono la licencia")
           ELSE /\ dbOpened' = TRUE
                /\ response' =
                     ValidateReply(SelectActive(licenses, body.license), now)

\* A mutation of ValidateLicense: a license found expired is deactivated.
ValidateLicenseExpiring ==
    \E key \in Credentials, body \in ValidateBodies, now \in Todays :
        /\ handler' = "validate_license"
        /\ api_key' = key
        /\ data' = body
        /\ today' = now
        /\ seq' = seq
        /\ IF "license" \notin body.fields
           THEN /\ dbOpened' = FALSE
                /\ response' = Reply(400, FALSE, "No se proporciono la licencia")
                /\ licenses' = licenses
           ELSE /\ dbOpened' = TRUE
                /\ response' =
                     ValidateReply(SelectActive(licenses, body.license), now)
                /\ licenses' =
                     IF response'.message = "Licencia expirada"
                     THEN DeactivateRows(licenses, body.license)
                     ELSE licenses

\* POST /api/validate (check_api_key() is not called: any header is let in)
ValidateLicense ==
    \E key \in Credentials, body \in ValidateBodies, now \in Todays :
        /\ handler' = "validate_license"
        /\ api_key' = key
        /\ data' = body
        /\ today' = now
        /\ UNCHANGED <<licenses, seq>>
        /\ IF "license" \notin body.fields
           THEN /\ dbOpened' = FALSE
                /\ response' = Reply(400, FALSE, "No se proporciono la licencia")
           ELSE /\ dbOpened' = TRUE
                /\ response' =
                     ValidateReply(SelectActive(licenses, body.license), now)

\* POST /api/admin/add_or_update_license
AddOrUpdateLicense ==
    \E key \in Credentials :
        /\ handler' = "add_or_update_license"
        /\ api_key' = key
        /\ today' = NoDate
        /\ IF ~CheckApiKey(key)
           THEN /\ data' = NoData
                /\ dbOpened' = FALSE
                /\ response' = Reply(401, FALSE, "No autorizado")
                /\ UNCHANGED <<licenses, seq>>
           ELSE \E body \in UpsertBodies :
           /\ data' = body
           /\ IF ~(Required \subseteq body.fields)
              THEN /\ dbOpened' = FALSE
                   /\ response' = Reply(400, FALSE, "Faltan campos obligatorios")
                   /\ UNCHANGED <<licenses, seq>>
              ELSE
              /\ dbOpened' = TRUE
              /\ IF ~InsertRaises(licenses, body)
                 THEN /\ licenses' = InsertRow(licenses, seq, body)
                      /\ seq' = seq + 1
                      /\ response' = Reply(200, TRUE, "Licencia agregada")
                 ELSE IF UpdateRaises(licenses, body)
                 THEN /\ response' = Unhandled
                      /\ UNCHANGED <<licenses, seq>>
                 ELSE /\ licenses' = UpdateRows(licenses, body)
                      /\ seq' = seq
                      /\ response' = Reply(200, TRUE, "Licencia actualizada")

\* POST /api/admin/deactivate_license
DeactivateLicense ==
    \E key \in Credentials :
        /\ handler' = "deactivate_license"
        /\ api_key' = key
        /\ today' = NoDate
        /\ seq' = seq
        /\ IF ~CheckApiKey(key)
           THEN /\ data' = NoData
                /\ dbOpened' = FALSE
                /\ response' = Reply(401, FALSE, "No autorizado")
                /\ licenses' = licenses
           ELSE \E body \in DeactivateBodies :
           /\ data' = body
           /\ IF "license_key" \notin body.fields
              THEN /\ dbOpened' = FALSE
                   /\ response' = Reply(400, FALSE, "Falta el campo license_key")
                   /\ licenses' = licenses
              ELSE /\ dbOpened' = TRUE
                   /\ licenses' = DeactivateRows(licenses, body.license_key)
                   /\ response' = Reply(200, TRUE, "Licencia desactivada")

\* GET /api/admin/list_licenses
ListLicenses ==
    \E key \in Credentials :
        /\ handler' = "list_licenses"
        /\ api_key' = key
        /\ data' = NoData
        /\ today' = NoDate
        /\ UNCHANGED <<licenses, seq>>
        /\ IF ~CheckApiKey(key)
           THEN /\ dbOpened' = FALSE
                /\ response' = Reply(401, FALSE, "No autorizado")
           ELSE /\ dbOpened' = TRUE
                /\ response' = [Reply(200, TRUE, "") EXCEPT
                                   !.licenses = SelectAll(licenses)]

Next ==
    \/ ValidateLicense /\ UNCHANGED <<workers, lock>>
    \/ AddOrUpdateLicense /\ UNCHANGED <<workers, lock>>
    \/ DeactivateLicense /\ UNCHANGED <<workers, lock>>
    \/ ListLicenses /\ UNCHANGED <<workers, lock>>

Spec == Init /\ [][Next]_vars

----------------------------------------------------------------------------
(* Concurrent requests.  Each admin request runs on its own connection     *)
(* (get_db() connects once per request); a statement, a commit and the     *)
(* return are separate steps.  Python's sqlite3 opens a transaction before *)
(* an INSERT or UPDATE, and SQLite lets one connection at a time write.    *)

\* Admin requests that passed the gate and the required-field check.
ConcurrentRequests ==
    { Worker("add_or_update_license", Body(Required, u, k, "2024-01-15", e, a, None),
             "start", "none", NoTxn, Reply(0, FALSE, "")) :
        u \in Usuarios \ {None}, k \in LicenseKeys \ {None},
        e \in {"2023-12-31", None}, a \in ActiveValues }
    \cup
    { Worker("add_or_update_license",
             Body(Required, None, k, "2024-01-15", "2023-12-31", 1, None),
             "start", "none", NoTxn, Reply(0, FALSE, "")) :
        k \in LicenseKeys \ {None} }
    \cup
    { Worker("deactivate_license",
             Body({"license_key"}, None, k, None, None, 0, None),
             "start", "none", NoTxn, Reply(0, FALSE, "")) :
        k \in LicenseKeys \ {None} }

InitConc ==
    /\ InitStore
    /\ workers \in [Procs -> ConcurrentRequests]

\* A mutation of LockFree: connections write without excluding each other.
LockFreeAlways(holder) == TRUE

\* A write statement starts once no other connection holds the write lock
\* (until then sqlite3's busy handler makes the call wait).
LockFree(holder) == holder = None

\* A mutation of AfterWrite: db.commit() is missing.
AfterWriteReturn(branch) == "return"

\* The statement that follows a successful INSERT or UPDATE: db.commit().
AfterWrite(branch) == "commit"

\* The success answer of each branch.
SuccessReply(branch) ==
    CASE branch = "insert" -> Reply(200, TRUE, "Licencia agregada")
      [] branch = "update" -> Reply(200, TRUE, "Licencia actualizada")
      [] branch = "deactivate" -> Reply(200, TRUE, "Licencia desactivada")

\* The first statement: the INSERT of add_or_update_license, the UPDATE of
\* deactivate_license.  It opens the transaction and takes the write lock.
Execute(p) ==
    LET w == workers[p] IN
    /\ w.pc = "start"
    /\ LockFree(lock)
    /\ lock' = p
    /\ workers' =
         [workers EXCEPT ![p] =
            IF w.op = "deactivate_license"
            THEN [w EXCEPT !.branch = "deactivate",
                           !.pc = AfterWrite("deactivate"),
                           !.txn = Txn(TRUE,
                                       DeactivateRows(licenses,
                                                      w.body.license_key),
                                       seq)]
            ELSE IF ~InsertRaises(licenses, w.body)
            THEN [w EXCEPT !.branch = "insert",
                           !.pc = AfterWrite("insert"),
                           !.txn = Txn(TRUE,
                                       InsertRow(licenses, seq, w.body),
                                       seq + 1)]
            ELSE [w EXCEPT !.pc = "except",
                           !.txn = Txn(TRUE, licenses, seq)]]
    /\ UNCHANGED <<licenses, seq, handler, api_key, data, today, dbOpened,
                   response>>

\* except sqlite3.IntegrityError: the UPDATE, in the transaction the failed
\* INSERT left open.  An IntegrityError it raises is caught by nothing.
Fallback(p) ==
    LET w == workers[p] IN
    /\ w.pc = "except"
    /\ workers' =
         [workers EXCEPT ![p] =
            IF UpdateRaises(w.txn.rows, w.body)
            THEN [w EXCEPT !.pc = "teardown", !.reply = Unhandled]
            ELSE [w EXCEPT !.branch = "update",
                           !.pc = AfterWrite("update"),
                           !.txn = Txn(TRUE, UpdateRows(w.txn.rows, w.body),
                                       w.txn.seq)]]
    /\ UNCHANGED <<licenses, seq, handler, api_key, data, today, dbOpened,
                   response, lock>>

\* db.commit(): the transaction's writes become the database; the lock is
\* released.
Commit(p) ==
    LET w == workers[p] IN
    /\ w.pc = "commit"
    /\ licenses' = w.txn.rows
    /\ seq' = w.txn.seq
    /\ lock' = None
    /\ workers' = [workers EXCEPT ![p] =
                      [w EXCEPT !.pc = "return", !.txn = NoTxn]]
    /\ UNCHANGED <<handler, api_key, data, today, dbOpened, response>>

\* return jsonify({"success": True, ...}), 200
Return(p) ==
    LET w == workers[p] IN
    /\ w.pc = "return"
    /\ workers' = [workers EXCEPT ![p] =
                      [w EXCEPT !.pc = "teardown",
                                !.reply = SuccessReply(w.branch)]]
    /\ UNCHANGED <<licenses, seq, handler, api_key, data, today, dbOpened,
                   response, lock>>

\* close_connection(): db.close() rolls back a transaction left open.
Teardown(p) ==
    LET w == workers[p] IN
    /\ w.pc = "teardown"
    /\ lock' = IF w.txn.open /\ lock = p THEN None ELSE lock
    /\ workers' = [workers EXCEPT ![p] =
                      [w EXCEPT !.pc = "done", !.txn = NoTxn]]
    /\ UNCHANGED <<licenses, seq, handler, api_key, data, today, dbOpened,
                   response>>

Step(p) ==
    \/ Execute(p)
    \/ Fallback(p)
    \/ Commit(p)
    \/ Return(p)
    \/ Teardown(p)

NextConc == \E p \in Procs : Step(p)

SpecConc == InitConc /\ [][NextConc]_vars

\* Every request is served by its own thread, which keeps running.
FairSpecConc == SpecConc /\ \A p \in Procs : WF_vars(Step(p))

----------------------------------------------------------------------------
(* Properties of the validity rule *)

\* The calendar date each year-month-day text of the runs denotes.
DateTexts ==
    { <<"2023-12-31", Date(2023, 12, 31)>>, <<"2023-02-01", Date(2023, 2, 1)>>,
      <<"2024-1-1", Date(2024, 1, 1)>> }

\* Days are ordered as the numbers yyyymmdd are.
DayNumber(dt) == dt.year * 10000 + dt.month * 100 + dt.day

Validated == handler = "validate_license" /\ "license" \in data.fields

\* The rows with the key the last validate request asked about.
Asked == { r \in licenses : r.license_key = data.license }

Invalid == Reply(200, FALSE, "Licencia invalida o desactivada")
Expired == Reply(200, FALSE, "Licencia expirada")
EvaluationError == Reply(500, FALSE, "Error en el formato de fecha")

\* C1: an active record whose expirationDate is the date d validates as
\* Valid when today <= d (today = d included) and as Expired when today > d.
C1_ExpirationBoundary ==
    Validated =>
        \A r \in Asked : \A t \in DateTexts :
            (r.active = 1 /\ r.expiration_date = t[1]) =>
                IF DayNumber(today) <= DayNumber(t[2])
                THEN /\ response.status = 200 /\ response.ok
                     /\ response.message = "Licencia valida"
                ELSE response = Expired

\* A validation on the very day of expiration answered Valid.
C1_Witness ==
    /\ Validated /\ today = Date(2023, 12, 31) /\ response.ok
    /\ \E r \in Asked : r.active = 1 /\ r.expiration_date = "2023-12-31"

\* C2: a key with no record, or with a record that is not active, validates
\* as Invalid on every day, whatever the record's dates.
C2_MissingOrInactiveInvalid ==
    (Validated /\ \A r \in Asked : r.active = 0) => response = Invalid

\* An inactive record whose expiration date has not passed validated Invalid.
C2_Witness ==
    /\ Validated /\ today = Date(2023, 12, 30) /\ response = Invalid
    /\ \E r \in Asked : r.active = 0 /\ r.expiration_date = "2023-12-31"

\* C3: an active record with no expirationDate validates as Valid on every
\* day, echoing its owner and subscriptionDate and an absent expirationDate.
C3_NoExpirationValid ==
    Validated =>
        \A r \in Asked :
            (r.active = 1 /\ r.expiration_date = None) =>
                /\ response.status = 200 /\ response.ok
                /\ response.message = "Licencia valida"
                /\ response.usuario = r.usuario
                /\ response.subscription_date = r.subscription_date
                /\ response.expiration_date = None

\* An active record without expiration validated Valid long after the others
\* expired.
C3_Witness ==
    /\ Validated /\ today = Date(2024, 1, 1) /\ response.ok
    /\ \E r \in Asked : r.active = 1 /\ r.expiration_date = None

\* C4: an active record whose expirationDate is present but is no YYYY-MM-DD
\* date validates as EvaluationError, never as Valid.
C4_UnparseableIsError ==
    Validated =>
        \A r \in Asked :
            ( /\ r.active = 1
              /\ r.expiration_date # None
              /\ \A t \in DateTexts : r.expiration_date # t[1] )
            => response = EvaluationError

----------------------------------------------------------------------------
(* Properties of the admin gate and of the store operations *)

Gated == {"add_or_update_license", "deactivate_license", "list_licenses"}

Unauthorized == Reply(401, FALSE, "No autorizado")

\* C5: a gated operation called with a credential other than the secret
\* answers Unauthorized, opens no database connection and leaves the store
\* as it was.
C5_GateBeforeStore ==
    [][ (handler' \in Gated /\ api_key' # ADMIN_API_KEY) =>
            /\ response' = Unauthorized
            /\ ~dbOpened'
            /\ licenses' = licenses /\ seq' = seq ]_vars

\* An upsert sent with a credential one letter off was refused.
C5_Witness ==
    /\ handler = "add_or_update_license"
    /\ api_key = "clave_secreta_por_defectO"
    /\ response = Unauthorized /\ ~dbOpened

\* A record as the data model has it: owner, key and subscriptionDate are
\* texts (expirationDate may be absent).
IsRecord(d) ==
    /\ Required \subseteq d.fields
    /\ d.usuario # None /\ d.license_key # None /\ d.subscription_date # None

\* The last request was an upsert of a record and was answered with success.
Upserted ==
    /\ handler = "add_or_update_license" /\ response.status = 200
    /\ IsRecord(data)

SameFields(r, d) ==
    /\ r.usuario = d.usuario
    /\ r.license_key = d.license_key
    /\ r.subscription_date = d.subscription_date
    /\ r.expiration_date = d.expiration_date
    /\ r.active = d.active

\* C6: no two records ever share a key; right after an upsert exactly one
\* record has its key and carries its owner, dates and active flag; and the
\* id of a key's record stays the one its insert assigned.
C6_UpsertUniqueness ==
    /\ [](\A r1, r2 \in licenses :
              r1.license_key = r2.license_key => r1 = r2)
    /\ [](Upserted =>
              /\ Cardinality({ r \in licenses :
                                 r.license_key = data.license_key }) = 1
              /\ \A r \in licenses :
                     r.license_key = data.license_key => SameFields(r, data))
    /\ [][ \A r \in licenses : \A q \in licenses' :
               r.license_key = q.license_key => r.id = q.id ]_vars

\* The seeded record was upserted with new fields and still has id 1.
C6_Witness ==
    /\ Upserted /\ data.license_key = "LICENSE-1234-5678"
    /\ data.usuario = "usuario_nuevo" /\ data.active = 0
    /\ \E r \in licenses : r.id = 1 /\ SameFields(r, data)

\* C7: a listing that immediately follows a successful upsert of record r
\* holds exactly one record with r's key, equal to r in every field but id.
C7_RoundTrip ==
    [][ (Upserted /\ handler' = "list_licenses" /\ response'.status = 200) =>
            LET listed == response'.licenses
                at == { i \in 1..Len(listed) :
                          listed[i].license_key = data.license_key }
            IN /\ Cardinality(at) = 1
               /\ \A i \in at : SameFields(listed[i], data) ]_vars

\* An upsert that took the insert branch, stored with an empty expiration.
C7_Witness ==
    /\ Upserted /\ response.message = "Licencia agregada"
    /\ data.license_key = "LICENSE-0000-1111" /\ data.expiration_date = ""

\* C8: an upsert of a record answers "Licencia agregada" exactly when no
\* record had its key before the call and "Licencia actualizada" exactly
\* when one had.
C8_BranchReported ==
    [][ (Upserted') =>
            LET existed == \E r \in licenses :
                               r.license_key = data'.license_key
            IN /\ response'.message = "Licencia agregada" <=> ~existed
               /\ response'.message = "Licencia actualizada" <=> existed ]_vars

\* An upsert of a key that a former upsert had inserted answered "updated".
C8_Witness ==
    /\ Upserted /\ response.message = "Licencia actualizada"
    /\ data.license_key = "LICENSE-0000-1111"

Deactivated ==
    /\ handler = "deactivate_license" /\ response.status = 200

\* C9: a deactivate(k) that immediately follows a deactivate(k) leaves the
\* whole store as the first one left it.
C9_DeactivateIdempotent ==
    [][ ( /\ Deactivated /\ Deactivated'
          /\ data'.license_key = data.license_key ) =>
            licenses' = licenses /\ seq' = seq ]_vars

\* deactivate has run on the key of a record, which is now inactive.
C9_Witness ==
    /\ Deactivated
    /\ \E r \in licenses : r.license_key = data.license_key /\ r.active = 0

\* C10: deactivate(k) clears the active flag of the record with key k and
\* changes nothing else: that record's other fields, and every other
\* record, stay as they were.
C10_DeactivateFrame ==
    [][ Deactivated' =>
            /\ Cardinality(licenses') = Cardinality(licenses)
            /\ seq' = seq
            /\ \A r \in licenses :
                   IF r.license_key = data'.license_key
                   THEN [r EXCEPT !.active = 0] \in licenses'
                   ELSE r \in licenses' ]_vars

\* deactivate ran on the seeded key LICENSE-1234-5678: its record is
\* inactive and the other seeded record is still active.
C10_Witness ==
    /\ Deactivated /\ data.license_key = "LICENSE-1234-5678"
    /\ \E r \in licenses : r.id = 1 /\ r.active = 0
    /\ \E r \in licenses : r.id = 2 /\ r.active = 1

----------------------------------------------------------------------------
(* Further properties of the sequential handlers *)

\* The record the last request's license_key names is in the table.
KeyFound == \E r \in licenses : r.license_key = data.license_key

\* C11: deactivate(k) on a key with no record does not fail and leaves the
\* store unchanged, and its answer tells that case (found = false) from the
\* case of a record with key k (found = true).
C11_DeactivateReportsFound ==
    (Deactivated /\ data.license_key # None) =>
        /\ response.ok
        /\ KeyFound <=> response = Reply(200, TRUE, "Licencia desactivada")

\* C15: no operation removes a record: a record with key k and id i is
\* still there, with key k and id i, after every step.
C15_NeverDeleted ==
    [][ \A r \in licenses : \E q \in licenses' :
            q.license_key = r.license_key /\ q.id = r.id ]_vars

\* A record was inserted under id 3, then deactivated: all three remain.
C15_Witness ==
    /\ Deactivated /\ data.license_key = "LICENSE-0000-1111"
    /\ { r.id : r \in licenses } = {1, 2, 3}
    /\ \E r \in licenses : r.id = 3 /\ r.active = 0

\* C16: validate answers the same whatever credential comes with the
\* request (two validations of the same key on the same day, one after the
\* other, agree), while the gated operations succeed only with the secret.
C16_ValidateNotGated ==
    /\ [][ (Validated /\ Validated' /\ data' = data /\ today' = today) =>
               response' = response ]_vars
    /\ [][ (handler' \in Gated /\ response'.status = 200) =>
               api_key' = ADMIN_API_KEY ]_vars

\* A validation sent without any credential answered Valid.
C16_Witness ==
    /\ Validated /\ api_key = None /\ response.ok
    /\ response.usuario = "usuario_nuevo"

\* C17: a success answer to a request with every required key (null values
\* included) means a record with the request's license_key is in the table.
C17_SuccessMeansStored ==
    ( /\ handler = "add_or_update_license" /\ response.status = 200
      /\ Required \subseteq data.fields ) => KeyFound

\* C18: a deactivated record stays inactive until an upsert on its key with
\* active = 1 succeeds, and as long as it is inactive its key validates as
\* Invalid on every day.
C18_DeactivationSticks ==
    /\ [][ \A r \in licenses :
               r.active = 0 =>
                   \/ \E q \in licenses' :
                          q.license_key = r.license_key /\ q.active = 0
                   \/ /\ handler' = "add_or_update_license"
                      /\ response'.status = 200
                      /\ data'.license_key = r.license_key
                      /\ data'.active = 1 ]_vars
    /\ []( (Validated /\ \E r \in Asked : r.active = 0) =>
               response = Invalid )

\* The seeded record of LICENSE-1234-5678, untouched by any upsert, is
\* inactive (so deactivate has run on it) and validates as Invalid the day
\* before it would expire.
C18_Witness ==
    /\ Validated /\ response = Invalid
    /\ today = Date(2023, 12, 30)
    /\ \E r \in Asked :
           /\ r.id = 1 /\ r.subscription_date = "2023-03-03"
           /\ r.expiration_date = "2023-12-31" /\ r.active = 0

\* C19: an upsert on key k changes or creates only the record with key k:
\* the records with another key are the same before and after.
C19_UpsertFrame ==
    [][ handler' = "add_or_update_license" =>
            { r \in licenses' : r.license_key # data'.license_key }
                = { r \in licenses : r.license_key # data'.license_key } ]_vars

\* An upsert inserted LICENSE-0000-1111 and the seeded records are as seeded.
C19_Witness ==
    /\ Upserted /\ response.message = "Licencia agregada"
    /\ SeedRows \subseteq licenses
    /\ Cardinality(licenses) = 3

\* C20: validate and list are read-only: the table and the id sequence are
\* the same before and after, whatever the answer.
C20_ReadOnly ==
    [][ handler' \in {"validate_license", "list_licenses"} =>
            licenses' = licenses /\ seq' = seq ]_vars

\* A validation answered Expired and the expired record is still active.
C20_Witness ==
    /\ Validated /\ response = Expired
    /\ \E r \in Asked : r.active = 1 /\ r.expiration_date = "2023-12-31"

----------------------------------------------------------------------------
(* Properties of concurrent requests *)

AllDone == \A p \in Procs : workers[p].pc = "done"

\* Both requests are upserts of records with one and the same key.
SameKeyUpserts ==
    /\ \A p \in Procs :
           workers[p].op = "add_or_update_license" /\ IsRecord(workers[p].body)
    /\ \A p, q \in Procs :
           workers[p].body.license_key = workers[q].body.license_key

C13_DifferentKeysDoNotBlock ==
    \A p, q \in Procs :
        ( /\ workers[p].op = "add_or_update_license"
          /\ workers[q].op = "add_or_update_license"
          /\ IsRecord(workers[p].body) /\ IsRecord(workers[q].body)
          /\ workers[p].body.license_key # workers[q].body.license_key
          /\ workers[p].pc = "commit"
          /\ workers[q].pc = "start" )
        => ENABLED Execute(q)

\* C14: no success answer is produced while the request's write is still
\* uncommitted: when a request answers success its transaction is closed
\* and it does not hold the write lock.
C14_CommitBeforeReturn ==
    \A p \in Procs :
        workers[p].reply.ok => (~workers[p].txn.open /\ lock # p)

\* A deactivation has answered success while the other request, an upsert,
\* has written and not yet committed; the deactivation is in the database.
C14_Witness ==
    /\ workers["w1"].op = "deactivate_license" /\ workers["w1"].reply.ok
    /\ workers["w2"].txn.open /\ workers["w2"].branch = "update"
    /\ \E r \in licenses :
           r.license_key = workers["w1"].body.license_key /\ r.active = 0

====
